---- MODULE Spec2Model ----
(***************************************************************************)
(* Verification model of the trading copilot's decision core:              *)
(*   server/engine/loop.ts        loop scheduler (startLoop/stopLoop/tick) *)
(*   server/execution/handler.ts  trade handler funnel (handleTrade)       *)
(*   server/routes.ts             POST /api/ui/execute-now, set-chain      *)
(*   server/skills/tradingSkill.ts  skill action execute_trade             *)
(*   server/execution/baseEngine.ts Base engine executeTrade               *)
(*   server/engine/risk.ts        checkRisk (as described in spec 4.2)     *)
(*                                                                         *)
(* Node.js runs each handler to completion between await points, so every  *)
(* action below is the code between two awaits of one async function.      *)
(* Confidence is kept in tenths (0.3 is 3); prices and amounts are small   *)
(* integers; time is kept as the seconds elapsed since the last trade,     *)
(* saturating at the cooldown it is compared with.                         *)
(***************************************************************************)
EXTENDS Integers, Sequences, FiniteSets, TLC

VARIABLES
  running,          \* sharedState.running
  loopTimer,        \* loop.ts loopTimer: 0 is null, -1 the handle of a timer that has
                    \* fired, else the handle of an armed timer
  timers,           \* handles of the setTimeout timers that are armed and not yet fired
  ticks,            \* the timer callbacks in flight: tick() and its locals, per slot
  reqs,             \* the HTTP-triggered trades in flight (execute-now, skill), per slot
  activeChain,      \* sharedState.activeChain
  rollingPrices,    \* sharedState.rollingPrices
  lastImpliedPrice, \* sharedState.lastImpliedPrice, 0 is null
  lastSignal,       \* sharedState.lastSignal, "null" is null
  lastStrength,     \* sharedState.lastStrength, NullStrength is null
  lastConfidence,   \* sharedState.lastConfidence in tenths, NullConfidence is null
  switches,         \* history: the number of set-chain requests served
  sinceTrade,       \* Date.now() - sharedState.lastTradeTs in seconds, saturating
  dailyLoss,        \* sharedState.dailyLoss
  paperUSDC,        \* sharedState.paperUSDC
  paperPosition,    \* sharedState.paperPosition
  paperPnL,         \* sharedState.paperPnL
  handled,          \* history: the baseline plus and minus every fill handleTrade handled
  receipts,         \* data/receipts.jsonl, one record per line
  baseEnv,          \* the variables of BASE_REQUIRED_VARS that are set in process.env
  killSwitch,       \* process.env.KILL_SWITCH === "true"
  baseSince,        \* Date.now() - baseEngine.ts lastTradeTs in seconds, saturating
  baseCalls,        \* the baseEngine.executeTrade calls in flight, per slot
  baseEv,           \* history: what the last step of the Base engine did
  sinceSwap,        \* history: seconds since the last swap was submitted, saturating
  funding,          \* agentKit.ts fundingReady and the run of ensureFunded in flight
  riskIn,           \* the arguments and ambient state of the last checkRisk call
  riskOut,          \* what that call returned
  appended,         \* history: the receipt objects handed to appendReceipt, in order
  corrupt,          \* the lines of data/receipts.jsonl that no longer hold valid JSON
  listed,           \* history: the last listReceipts call and what it returned
  uniPrices,        \* uniswapState.rollingPrices
  uniPushed,        \* history: every price handed to updateUniswapRollingPrices
  sigOut,           \* history: the last computeUniswapSignal call and its result
  llmIn,            \* the chat-completion response decideAction gets
  llmOut,           \* history: what decideAction returned for it
  ev                \* history: what the last step did (the last handleTrade call, its outcome)

loopVars == <<running, loopTimer, timers, ticks>>
signalState == <<lastSignal, lastStrength, lastConfidence>>
stateVars == <<activeChain, rollingPrices, lastImpliedPrice, signalState, switches>>
ledgerVars == <<sinceTrade, dailyLoss, paperUSDC, paperPosition, paperPnL, receipts,
               appended, handled>>
engineVars == <<killSwitch, baseSince, baseCalls, baseEv, sinceSwap>>
riskVars == <<riskIn, riskOut>>
storeVars == <<corrupt, listed>>
signalVars == <<uniPrices, uniPushed, sigOut>>
plannerVars == <<llmIn, llmOut>>
auxVars == <<storeVars, signalVars, plannerVars, funding>>
vars == <<running, loopTimer, timers, ticks, reqs, activeChain, rollingPrices,
          lastImpliedPrice, lastSignal, lastStrength, lastConfidence, switches,
          sinceTrade, dailyLoss, paperUSDC,
          paperPosition, paperPnL, handled, receipts, baseEnv, killSwitch, baseSince,
          baseCalls, baseEv, sinceSwap, funding, riskIn, riskOut, appended, corrupt, listed, uniPrices,
          uniPushed, sigOut, llmIn, llmOut, ev>>

---------------------------------------------------------------------------
\* Bounds of the model.
MaxChains == 2
MaxReqs == 1
MaxSamples == 1
MaxReceipts == 1
MaxBaseCalls == 2
MaxLines == 3
MaxLogLines == 2
MaxSignalWindow == 4
MaxPushes == 32
MaxHighs == 2
MaxSwitches == 1
MaxRuns == 3

\* Program constants.
WINDOW_SIZE == 30
PAPER_BASELINE == 1000
CONF_THRESHOLD == 3

\* handler.ts BASE_REQUIRED_VARS
BASE_REQUIRED_VARS ==
  {"BASE_PRIVATE_KEY", "BASE_RPC_URL", "BASE_PRIMARY_TOKEN", "BASE_USDC", "BASE_SWAP_ROUTER"}

\* The environments of the model: Base fully configured, or one variable short.
Environments == {BASE_REQUIRED_VARS, BASE_REQUIRED_VARS \ {"BASE_SWAP_ROUTER"}}

Chains == {"solana-devnet", "base"}
Sides == {"BUY", "SELL"}
Actions == {"BUY", "SELL", "HOLD"}
Confidences == {0, 3, 4}
QuotePrices == {1, 2}
PosPrices == {1, 2}
Slippages == {50, 100}

\* getConfig(): the limits read from the environment.
cfg == [maxNotional |-> 2, maxSlippageBps |-> 50, cooldownSec |-> 1, maxDailyLoss |-> 1,
        breakoutThresholdBps |-> 200]

\* The Base engine's limits: BASE_MAX_NOTIONAL_USD and BASE_COOLDOWN_SECONDS.
baseCfg == [maxNotional |-> 2, cooldownSec |-> 1, maxSlippageBps |-> 50]

Min(a, b) == IF a < b THEN a ELSE b

\* JavaScript numbers: the integers of the model, the two infinities and NaN.
Infinity == 1000000
NaN == 2000000
IsInf(x) == x = Infinity \/ x = -Infinity
fNeg(x) == IF x = NaN THEN NaN ELSE -x
fLt(a, b) == a # NaN /\ b # NaN /\ a < b
fEq(a, b) == a # NaN /\ b # NaN /\ a = b
fAdd(a, b) ==
  IF a = NaN \/ b = NaN THEN NaN
  ELSE IF IsInf(a) THEN (IF IsInf(b) /\ b # a THEN NaN ELSE a)
  ELSE IF IsInf(b) THEN b
  ELSE a + b
fMul(a, b) ==
  IF a = NaN \/ b = NaN THEN NaN
  ELSE IF IsInf(a) \/ IsInf(b)
    THEN (IF a = 0 \/ b = 0 THEN NaN
          ELSE IF (a > 0) = (b > 0) THEN Infinity ELSE -Infinity)
  ELSE a * b
fDiv(a, b) ==
  IF a = NaN \/ b = NaN THEN NaN
  ELSE IF IsInf(b) THEN (IF IsInf(a) THEN NaN ELSE 0)
  ELSE IF b = 0 THEN (IF a = 0 THEN NaN ELSE IF a > 0 THEN Infinity ELSE -Infinity)
  ELSE IF IsInf(a) THEN (IF (a > 0) = (b > 0) THEN Infinity ELSE -Infinity)
  ELSE a \div b

Fired == -1

TickSlots == 1..MaxChains
ReqSlots == 1..MaxReqs
TimerIds == 1..MaxChains
BaseSlots == 1..MaxBaseCalls

IdleTick == [pc |-> "idle", chain |-> "solana-devnet", allowed |-> FALSE, side |-> "BUY"]
IdleReq == [kind |-> "none", pc |-> "idle", chain |-> "solana-devnet", side |-> "BUY",
            notional |-> 0]

NoCall == [src |-> "none", action |-> "HOLD", checked |-> FALSE, allowed |-> FALSE,
           conf |-> 0, chain |-> "none"]
NoDone == [configOK |-> FALSE, engine |-> "none", result |-> "none", appended |-> 0,
           names |-> {}, inAmount |-> 0, outAmount |-> 0]
NoEv == [op |-> "other", slot |-> 0, price |-> 0, grew |-> FALSE, quotedFor |-> "none",
         call |-> NoCall, done |-> NoDone]

IdleBase == [pc |-> "idle", side |-> "BUY", notional |-> 0, net |-> 0, quoted |-> FALSE,
             inDecimals |-> 0, outDecimals |-> 0, estimatedIn |-> 0, inAmountRaw |-> 0,
             quotedOut |-> 0]
NoSent == [tx |-> "none", side |-> "BUY", notional |-> 0, amountIn |-> 0,
           amountOutMinimum |-> 0, estimatedIn |-> 0, quoted |-> FALSE, quotedOut |-> 0,
           gap |-> 0]
NoBaseEv == [op |-> "none", notional |-> 0, net |-> 0, ok |-> FALSE, notes |-> FALSE,
             failed |-> "none", sent |-> NoSent]

NoFunding == [pc |-> "idle", attempt |-> 0, fundingReady |-> FALSE, runs |-> 0,
              failed |-> 0, waits |-> <<>>]

NoListed == [called |-> FALSE, limit |-> 0, result |-> <<>>]
NoStrength == [num |-> 0, den |-> 1]
NullStrength == [num |-> 0, den |-> 0]
NullConfidence == -1
NoSignal == [signal |-> "HOLD", strength |-> NoStrength, rollingHigh |-> 0, rollingLow |-> 0,
             denoms |-> {}]
NoSigOut == [called |-> FALSE, threshold |-> 0, result |-> NoSignal]
NoLLMIn == [kind |-> "network_error", json |-> "none",
            action |-> [t |-> "missing", v |-> ""],
            confidence |-> [t |-> "missing", v |-> 0], reasons |-> "missing"]
NoLLMOut == [called |-> FALSE, threw |-> FALSE, action |-> "HOLD", confidence |-> 0,
             reasons |-> "empty"]

NoRiskIn == [notional |-> 0, slippageBps |-> 0, elapsed |-> 0, loss |-> 0]
NoRiskOut == [called |-> FALSE, allowed |-> FALSE,
              checks |-> [cooldownOK |-> FALSE, maxNotionalOK |-> FALSE,
                          maxDailyLossOK |-> FALSE, slippageOK |-> FALSE]]

---------------------------------------------------------------------------
\* Market adapter results: the zero-price sentinel, or a quote.
MarketResults ==
  {[impliedPrice |-> 0, slippageBps |-> 0]} \cup
  {[impliedPrice |-> p, slippageBps |-> s] : p \in QuotePrices, s \in Slippages}

\* Faulty variant: allowed leaves the slippage check out of the conjunction.
checkRisk_IgnoresSlippage(notional, slippageBps, c, elapsed, loss) ==
  LET checks == [cooldownOK     |-> elapsed >= c.cooldownSec,
                 maxNotionalOK  |-> notional <= c.maxNotional,
                 maxDailyLossOK |-> loss <= c.maxDailyLoss,
                 slippageOK     |-> slippageBps <= c.maxSlippageBps]
  IN [allowed |-> checks.cooldownOK /\ checks.maxNotionalOK /\ checks.maxDailyLossOK,
      checks |-> checks]

\* checkRisk(notional, slippageBps, cfg): four independent checks and their conjunction.
checkRisk(notional, slippageBps, c, elapsed, loss) ==
  LET checks == [cooldownOK     |-> elapsed >= c.cooldownSec,
                 maxNotionalOK  |-> notional <= c.maxNotional,
                 maxDailyLossOK |-> loss <= c.maxDailyLoss,
                 slippageOK     |-> slippageBps <= c.maxSlippageBps]
  IN [allowed |-> checks.cooldownOK /\ checks.maxNotionalOK /\
                  checks.maxDailyLossOK /\ checks.slippageOK,
      checks |-> checks]

\* updateRollingPrices(price): push, then shift once the window is over WINDOW_SIZE.
updateRollingPrices(w, price) ==
  LET pushed == Append(w, price)
  IN IF Len(pushed) > WINDOW_SIZE THEN Tail(pushed) ELSE pushed

\* setTimeout returns a handle that no armed timer and no variable holds.
FreshTimer == CHOOSE t \in TimerIds : t \notin timers /\
                 \A u \in TimerIds : u \notin timers => t <= u

---------------------------------------------------------------------------
\* Execution engines, as the handler sees them: what executeTrade can come back with.

\* The price of the Solana engine's own quote: a positive price, or the adapter's
\* zero-price sentinel when the quote fails.
SolanaPrices == {0} \cup PosPrices

\* solanaEngine.executeTrade: amounts derived from its own quote p, ok is always true.
SolanaResults(side, notional) ==
  {[kind |-> "return", ok |-> TRUE,
    inAmount  |-> IF side = "BUY" THEN notional ELSE fDiv(notional, p),
    outAmount |-> IF side = "BUY" THEN fDiv(notional, p) ELSE notional,
    slippageBps |-> 50] : p \in SolanaPrices}

\* baseEngine.executeTrade: a safety rail or a missing variable throws before the
\* try block; inside it, any exception is returned as ok=false with zero amounts; a
\* submitted swap returns ok = (receipt.status = "success") with the quoted amounts.
BaseResults(side, notional) ==
  {[kind |-> "throw", ok |-> FALSE, inAmount |-> 0, outAmount |-> 0, slippageBps |-> 0]} \cup
  {[kind |-> "return", ok |-> FALSE, inAmount |-> 0, outAmount |-> 0, slippageBps |-> 50]} \cup
  {[kind |-> "return", ok |-> o,
    inAmount  |-> IF side = "BUY" THEN notional ELSE notional \div p,
    outAmount |-> IF side = "BUY" THEN notional \div p ELSE notional,
    slippageBps |-> 50] : p \in PosPrices, o \in BOOLEAN}

\* getEngine(chain).executeTrade(...)
EngineResults(chain, side, notional) ==
  IF chain = "base" THEN BaseResults(side, notional) ELSE SolanaResults(side, notional)

---------------------------------------------------------------------------
\* Trade handler (handler.ts handleTrade).

\* Every variable of BASE_REQUIRED_VARS is set.
baseEnvOK == \A v \in BASE_REQUIRED_VARS : v \in baseEnv

\* baseConfigured()
baseConfigured == baseEnvOK

\* The names the configuration error carries: BASE_REQUIRED_VARS.join(", ").
configErrorNames == BASE_REQUIRED_VARS

\* handleTrade's first statement: a Base request without configuration is refused.
configOK(chain) == ~(chain = "base" /\ ~baseConfigured)

\* Faulty variant: no catch around the engine call, its exception escapes.
handlerResult_NoCatch(res) == IF res.kind = "throw" THEN "throw" ELSE "receipt"

\* try { execResult = await engine.executeTrade(...) } catch { return {error} }
handlerResult(res) == IF res.kind = "throw" THEN "error" ELSE "receipt"

usdcAmount(side, res) == IF side = "BUY" THEN res.inAmount ELSE res.outAmount
tokenAmount(side, res) == IF side = "BUY" THEN res.outAmount ELSE res.inAmount
fillPrice(side, res) ==
  IF fLt(0, tokenAmount(side, res))
    THEN fDiv(usdcAmount(side, res), tokenAmount(side, res)) ELSE 0

\* The receipt handleTrade builds from the engine's result.
buildReceipt(req, res) ==
  [id |-> Len(receipts) + 1, status |-> IF res.ok THEN "SUCCESS" ELSE "FAILED",
   side |-> req.side, notional |-> req.notional, fillPrice |-> fillPrice(req.side, res)]

\* JSON.stringify writes a number that is not finite as null.
Null == 3000000
jsonNumber(x) == IF x = NaN \/ IsInf(x) THEN Null ELSE x

\* JSON.stringify(receipt): the line written for a receipt.
stringify(receipt) ==
  [receipt EXCEPT !.notional = jsonNumber(@), !.fillPrice = jsonNumber(@)]

\* JSON.parse(line) of a line that holds valid JSON.
parse(line) == line

\* Faulty variant: the file is rewritten with the new line instead of appended to.
appendReceipt_Overwrite(log, receipt) == <<stringify(receipt)>>

\* appendReceipt(receipt): one more line at the end of the file.
appendReceipt(log, receipt) == Append(log, stringify(receipt))

\* Faulty variant: a trade the engine reports as failed leaves no receipt.
handlerReceipts_DropFailed(log, req, res) ==
  IF res.kind = "return" /\ res.ok THEN Append(log, buildReceipt(req, res)) ELSE log

\* The receipt log after handleTrade has dealt with the engine's result.
handlerReceipts(log, req, res) ==
  IF handlerResult(res) = "receipt" THEN appendReceipt(log, buildReceipt(req, res)) ELSE log

\* Faulty variant: only a trade the engine reports as ok moves the ledger.
ledgerAfter_OnlyOk(usdc, pos, req, res) ==
  IF ~res.ok THEN [usdc |-> usdc, pos |-> pos]
  ELSE IF req.side = "BUY"
    THEN [usdc |-> fAdd(usdc, -req.notional), pos |-> fAdd(pos, tokenAmount(req.side, res))]
    ELSE [usdc |-> fAdd(usdc, req.notional),
          pos |-> fAdd(pos, fNeg(tokenAmount(req.side, res)))]

\* Faulty variant: the ledger is written from the balances the process started
\* with, not from the ones it holds when the engine comes back.
ledgerAfter_Stale(usdc, pos, req, res) ==
  IF req.side = "BUY"
    THEN [usdc |-> fAdd(PAPER_BASELINE, -req.notional),
          pos |-> fAdd(0, tokenAmount(req.side, res))]
    ELSE [usdc |-> fAdd(PAPER_BASELINE, req.notional),
          pos |-> fAdd(0, fNeg(tokenAmount(req.side, res)))]

\* paperUSDC and paperPosition after the fill: -= and += on the current balances.
ledgerAfter(usdc, pos, req, res) ==
  IF req.side = "BUY"
    THEN [usdc |-> fAdd(usdc, -req.notional), pos |-> fAdd(pos, tokenAmount(req.side, res))]
    ELSE [usdc |-> fAdd(usdc, req.notional),
          pos |-> fAdd(pos, fNeg(tokenAmount(req.side, res)))]

\* handleTrade after the engine came back: the paper ledger, lastTradeTs, dailyLoss
\* and the receipt log. A thrown engine error returns {error} and changes nothing.
HandleTradeReturn(req, res) ==
  IF res.kind = "throw"
    THEN /\ receipts' = handlerReceipts(receipts, req, res)
         /\ UNCHANGED <<sinceTrade, dailyLoss, paperUSDC, paperPosition, paperPnL,
                        appended, handled>>
    ELSE LET tok == tokenAmount(req.side, res)
             usdc2 == ledgerAfter(paperUSDC, paperPosition, req, res).usdc
             pos2 == ledgerAfter(paperUSDC, paperPosition, req, res).pos
             pnl2 == fAdd(fAdd(fMul(pos2, fillPrice(req.side, res)), usdc2),
                          -PAPER_BASELINE)
         IN /\ paperUSDC' = usdc2
            /\ paperPosition' = pos2
            /\ paperPnL' = pnl2
            /\ sinceTrade' = 0
            /\ dailyLoss' = IF fLt(pnl2, 0) THEN fNeg(pnl2) ELSE dailyLoss
            /\ receipts' = handlerReceipts(receipts, req, res)
            /\ appended' = Append(appended, buildReceipt(req, res))
            /\ handled' =
                 [usdc |-> fAdd(handled.usdc,
                                IF req.side = "BUY" THEN -req.notional ELSE req.notional),
                  pos |-> fAdd(handled.pos, IF req.side = "BUY" THEN tok ELSE fNeg(tok)),
                  fills |-> handled.fills + 1]

\* The history record of a finished handleTrade call.
DoneEv(cok, res, before, after) ==
  [configOK |-> cok,
   engine |-> IF ~cok THEN "none"
              ELSE IF res.kind = "throw" THEN "throw"
              ELSE IF res.ok THEN "ok" ELSE "failed",
   result |-> IF ~cok THEN "error" ELSE handlerResult(res),
   appended |-> Len(after) - Len(before),
   names |-> IF ~cok THEN configErrorNames ELSE {},
   inAmount |-> res.inAmount,
   outAmount |-> res.outAmount]

NoRes == [kind |-> "none", ok |-> FALSE, inAmount |-> 0, outAmount |-> 0, slippageBps |-> 0]

---------------------------------------------------------------------------
\* Breakout signal over the rolling window (uniswap/signal.ts).

\* Exact fractions stand for the doubles of the code: num/den in lowest terms
\* with den > 0 (den = 0 only for a division by zero).
RECURSIVE gcd(_, _)
gcd(a, b) == IF b = 0 THEN a ELSE gcd(b, a % b)

abs(x) == IF x < 0 THEN -x ELSE x

rat(n, d) ==
  IF d = 0 THEN [num |-> n, den |-> 0]
  ELSE LET g == gcd(abs(n), abs(d))
           sg == IF d < 0 THEN -1 ELSE 1
       IN [num |-> sg * (n \div g), den |-> sg * (d \div g)]

rSub(a, b) == rat(a.num * b.den - b.num * a.den, a.den * b.den)
rMul(a, b) == rat(a.num * b.num, a.den * b.den)
rDiv(a, b) == rat(a.num * b.den, a.den * b.num)
rLt(a, b) == a.num * b.den < b.num * a.den
rLe(a, b) == a.num * b.den <= b.num * a.den
rMin(a, b) == IF rLt(b, a) THEN b ELSE a

SeqMax(seq) == CHOOSE x \in {seq[i] : i \in 1..Len(seq)} : \A i \in 1..Len(seq) : seq[i] <= x
SeqMin(seq) == CHOOSE x \in {seq[i] : i \in 1..Len(seq)} : \A i \in 1..Len(seq) : x <= seq[i]

\* Faulty variant: a full window forgets its newest price instead of its oldest.
updateUniswapRollingPrices_DropNewest(w, price) ==
  LET grown == Append(w, price)
  IN IF Len(grown) > WINDOW_SIZE THEN SubSeq(grown, 1, Len(grown) - 1) ELSE grown

\* updateUniswapRollingPrices(price): push, then shift once the window exceeds WINDOW_SIZE.
updateUniswapRollingPrices(w, price) ==
  LET grown == Append(w, price)
  IN IF Len(grown) > WINDOW_SIZE THEN Tail(grown) ELSE grown

\* Faulty variant: the high and the low are taken over the whole window.
priorPrices_All(prices) == prices

\* prices.slice(0, -1)
priorPrices(prices) == SubSeq(prices, 1, Len(prices) - 1)

\* Faulty variant: a flat prior window is treated like any other.
zeroRange_Never(range) == FALSE

\* range === 0
zeroRange(range) == range = 0

\* Faulty variant: a short window reports a weak BUY.
shortWindow_Buy ==
  [signal |-> "BUY", strength |-> rat(3, 10), rollingHigh |-> 0, rollingLow |-> 0,
   denoms |-> {}]

\* The result for a window of fewer than 3 samples.
shortWindow ==
  [signal |-> "HOLD", strength |-> rat(0, 1), rollingHigh |-> 0, rollingLow |-> 0,
   denoms |-> {}]

\* computeUniswapSignal(breakoutThresholdBps) on the window prices; denoms
\* collects the divisors of the divisions carried out on the way.
computeUniswapSignal(prices, breakoutThresholdBps) ==
  IF Len(prices) < 3 THEN shortWindow
  ELSE
    LET currentPrice == prices[Len(prices)]
        prior == priorPrices(prices)
        rollingHigh == SeqMax(prior)
        rollingLow == SeqMin(prior)
        range == rollingHigh - rollingLow
        out(sg, st, ds) ==
          [signal |-> sg, strength |-> st, rollingHigh |-> rollingHigh,
           rollingLow |-> rollingLow, denoms |-> ds]
    IN IF zeroRange(range) THEN out("HOLD", rat(0, 1), {})
       ELSE
         LET highBreakoutBps ==
               rMul(rDiv(rat(currentPrice - rollingHigh, 1), rat(rollingHigh, 1)), rat(10000, 1))
             lowBreakoutBps ==
               rMul(rDiv(rat(rollingLow - currentPrice, 1), rat(rollingLow, 1)), rat(10000, 1))
             thr == rat(breakoutThresholdBps, 1)
             thr3 == rMul(thr, rat(3, 1))
             d1 == {rollingHigh, rollingLow}
             position == rDiv(rat(currentPrice - rollingLow, 1), rat(range, 1))
         IN IF rLe(thr, highBreakoutBps)
            THEN out("BUY", rMin(rat(1, 1), rDiv(highBreakoutBps, thr3)),
                     d1 \cup {breakoutThresholdBps * 3})
            ELSE IF rLe(thr, lowBreakoutBps)
            THEN out("SELL", rMin(rat(1, 1), rDiv(lowBreakoutBps, thr3)),
                     d1 \cup {breakoutThresholdBps * 3})
            ELSE IF rLt(rat(4, 5), position)
            THEN out("BUY", rMul(rMul(rSub(position, rat(4, 5)), rat(5, 1)), rat(3, 10)),
                     d1 \cup {range})
            ELSE IF rLt(position, rat(1, 5))
            THEN out("SELL", rMul(rMul(rSub(rat(1, 5), position), rat(5, 1)), rat(3, 10)),
                     d1 \cup {range})
            ELSE out("HOLD", rat(0, 1), d1 \cup {range})

\* One call of updateUniswapRollingPrices.
UniUpdate(price) ==
  /\ uniPrices' = updateUniswapRollingPrices(uniPrices, price)
  /\ uniPushed' = Append(uniPushed, price)
  /\ sigOut' = NoSigOut
  /\ ev' = NoEv
  /\ UNCHANGED <<loopVars, reqs, stateVars, ledgerVars, baseEnv, engineVars, riskVars,
                 storeVars, plannerVars, funding>>

\* One call of computeUniswapSignal.
UniComputeSignal(thr) ==
  /\ sigOut' = [called |-> TRUE, threshold |-> thr,
                result |-> computeUniswapSignal(uniPrices, thr)]
  /\ ev' = NoEv
  /\ UNCHANGED <<loopVars, reqs, stateVars, ledgerVars, baseEnv, engineVars, riskVars,
                 storeVars, uniPrices, uniPushed, plannerVars, funding>>

SignalPrices == {90, 95, 100, 105, 108, 110, 130}
Thresholds == {200, 1000}
WindowPrices == {1, 2}
HighCount(seq) == Cardinality({i \in 1..Len(seq) : seq[i] = 2})

\* computeSignal(breakoutThresholdBps) of engine/signal.ts, over
\* sharedState.rollingPrices: the same rule as its Uniswap twin.
computeSignal(prices, breakoutThresholdBps) ==
  computeUniswapSignal(prices, breakoutThresholdBps)

\* getSignal(pair): computeSignal with the configured threshold.
getSignal(prices) == computeSignal(prices, cfg.breakoutThresholdBps)

---------------------------------------------------------------------------
\* Loop scheduler (loop.ts).

FreeTick == CHOOSE i \in TickSlots : ticks[i].pc = "idle" /\
               \A j \in TickSlots : ticks[j].pc = "idle" => i <= j
FreeReq == CHOOSE i \in ReqSlots : reqs[i].pc = "idle" /\
               \A j \in ReqSlots : reqs[j].pc = "idle" => i <= j

\* The callback chains alive: an armed timer, or a callback that has not returned.
Chains_alive == Cardinality(timers) + Cardinality({i \in TickSlots : ticks[i].pc # "idle"})

\* scheduleNext(): when running, arm a timer and keep its handle in loopTimer.
scheduleNext(run) ==
  IF run THEN [loopTimer |-> FreshTimer, timers |-> timers \cup {FreshTimer}]
         ELSE [loopTimer |-> loopTimer, timers |-> timers]

\* startLoop(): return if already running; else set the flag and arm the timer.
StartLoop ==
  /\ ~running => Chains_alive < MaxChains
  /\ IF running
       THEN /\ UNCHANGED <<running, loopTimer, timers>>
            /\ ev' = [NoEv EXCEPT !.op = "startNoop"]
       ELSE /\ running' = TRUE
            /\ loopTimer' = scheduleNext(TRUE).loopTimer
            /\ timers' = scheduleNext(TRUE).timers
            /\ ev' = NoEv
  /\ UNCHANGED <<ticks, reqs, stateVars, ledgerVars, baseEnv, engineVars, riskVars, auxVars>>

\* stopLoop(): clear the flag; clearTimeout(loopTimer) and forget the handle.
StopLoop ==
  /\ running' = FALSE
  /\ timers' = IF loopTimer # 0 THEN timers \ {loopTimer} ELSE timers
  /\ loopTimer' = 0
  /\ ev' = IF running THEN NoEv ELSE [NoEv EXCEPT !.op = "stopIdle"]
  /\ UNCHANGED <<ticks, reqs, stateVars, ledgerVars, baseEnv, engineVars, riskVars, auxVars>>

\* The timer callback returns from tick() and calls scheduleNext().
FinishTick(i) ==
  /\ ticks' = [ticks EXCEPT ![i] = IdleTick]
  /\ loopTimer' = scheduleNext(running).loopTimer
  /\ timers' = scheduleNext(running).timers
  /\ UNCHANGED running

\* A timer fires: tick() returns at once when not running (and scheduleNext does
\* nothing); else it captures the active chain and awaits the market quote.
TimerFire(t) ==
  /\ t \in timers
  /\ timers' = timers \ {t}
  /\ IF running
       THEN /\ ticks' = [ticks EXCEPT ![FreeTick] =
                           [IdleTick EXCEPT !.pc = "market", !.chain = activeChain]]
            /\ ev' = [NoEv EXCEPT !.op = "tickStart"]
       ELSE /\ UNCHANGED ticks
            /\ ev' = NoEv
  /\ loopTimer' = IF loopTimer = t THEN Fired ELSE loopTimer
  /\ UNCHANGED <<running, reqs, stateVars, ledgerVars, baseEnv, engineVars, riskVars, auxVars>>

\* tick, after getMarketForChain: skip on a non-positive price; else record the
\* price, run checkRisk and await the planner.
TickMarket(i, m) ==
  /\ ticks[i].pc = "market"
  /\ m.impliedPrice > 0 => Len(rollingPrices) < MaxSamples
  /\ IF m.impliedPrice <= 0
       THEN /\ FinishTick(i)
            /\ UNCHANGED <<stateVars>>
       ELSE LET risk == checkRisk(cfg.maxNotional, m.slippageBps, cfg, sinceTrade, dailyLoss)
            IN /\ lastImpliedPrice' = m.impliedPrice
               /\ rollingPrices' = updateRollingPrices(rollingPrices, m.impliedPrice)
               /\ lastSignal' = getSignal(rollingPrices').signal
               /\ lastStrength' = getSignal(rollingPrices').strength
               /\ ticks' = [ticks EXCEPT ![i] = [@ EXCEPT !.pc = "planner",
                                                 !.allowed = risk.allowed]]
               /\ UNCHANGED <<running, loopTimer, timers, activeChain, lastConfidence, switches>>
  /\ ev' = [NoEv EXCEPT !.op = "tickQuote", !.slot = i, !.price = m.impliedPrice,
                        !.grew = (rollingPrices' # rollingPrices),
                        !.quotedFor = ticks[i].chain]
  /\ UNCHANGED <<reqs, ledgerVars, baseEnv, engineVars, riskVars, auxVars>>

\* Faulty variant: the tick trusts the planner and does not look at risk.allowed.
tickGate_NoRisk(action, allowed, conf) ==
  (action = "BUY" \/ action = "SELL") /\ conf > CONF_THRESHOLD

\* The condition under which tick routes the decision to handleTrade.
tickGate(action, allowed, conf) ==
  (action = "BUY" \/ action = "SELL") /\ allowed /\ conf > CONF_THRESHOLD

\* tick, after decideAction: record the confidence, trade through the handler if
\* the gate is open.
TickPlanner(i, action, conf) ==
  /\ ticks[i].pc = "planner"
  /\ LET call == [src |-> "loop", action |-> action, checked |-> TRUE,
                  allowed |-> ticks[i].allowed, conf |-> conf, chain |-> ticks[i].chain]
     IN IF tickGate(action, ticks[i].allowed, conf)
          THEN /\ Len(receipts) < MaxReceipts
               /\ IF configOK(ticks[i].chain)
                    THEN /\ ticks' = [ticks EXCEPT ![i] = [@ EXCEPT !.pc = "engine",
                                                           !.side = action]]
                         /\ UNCHANGED <<running, loopTimer, timers>>
                         /\ ev' = [NoEv EXCEPT !.op = "call", !.call = call]
                    ELSE /\ FinishTick(i)
                         /\ ev' = [NoEv EXCEPT !.op = "call", !.call = call,
                                     !.done = DoneEv(FALSE, NoRes, receipts, receipts)]
          ELSE /\ FinishTick(i)
               /\ ev' = NoEv
  /\ lastConfidence' = conf
  /\ UNCHANGED <<reqs, activeChain, rollingPrices, lastImpliedPrice, lastSignal,
                 lastStrength, switches, ledgerVars, baseEnv, engineVars, riskVars, auxVars>>

\* tick, after handleTrade's engine call came back: the handler finishes, the
\* tick logs the result and returns.
TickEngine(i, res) ==
  /\ ticks[i].pc = "engine"
  /\ res \in EngineResults(ticks[i].chain, ticks[i].side, cfg.maxNotional)
  /\ HandleTradeReturn([chain |-> ticks[i].chain, side |-> ticks[i].side,
                        notional |-> cfg.maxNotional, source |-> "ui"], res)
  /\ FinishTick(i)
  /\ ev' = [NoEv EXCEPT !.op = "done", !.done = DoneEv(TRUE, res, receipts, receipts')]
  /\ UNCHANGED <<reqs, stateVars, baseEnv, engineVars, riskVars, auxVars>>

\* Faulty variant: tick has no try/catch, so the exception rejects the timer
\* callback before it reaches scheduleNext().
TickRaise_Uncaught(i) ==
  /\ ticks[i].pc \in {"market", "planner"}
  /\ ticks' = [ticks EXCEPT ![i] = IdleTick]
  /\ ev' = NoEv
  /\ UNCHANGED <<running, loopTimer, timers, reqs, stateVars, ledgerVars, baseEnv,
                 engineVars, riskVars, auxVars>>

\* An exception raised inside tick's try block is caught and logged; tick returns.
TickRaise(i) ==
  /\ ticks[i].pc \in {"market", "planner"}
  /\ FinishTick(i)
  /\ ev' = NoEv
  /\ UNCHANGED <<reqs, stateVars, ledgerVars, baseEnv, engineVars, riskVars, auxVars>>

---------------------------------------------------------------------------
\* HTTP entry points (routes.ts, tradingSkill.ts).

\* POST /api/ui/execute-now {side}: capture the active chain, await the market quote.
ExecuteNow(side) ==
  /\ \E i \in ReqSlots : reqs[i].pc = "idle"
  /\ reqs' = [reqs EXCEPT ![FreeReq] = [IdleReq EXCEPT !.kind = "exec", !.pc = "market",
                                          !.chain = activeChain, !.side = side,
                                          !.notional = cfg.maxNotional]]
  /\ ev' = NoEv
  /\ UNCHANGED <<loopVars, stateVars, ledgerVars, baseEnv, engineVars, riskVars, auxVars>>

\* execute-now, after getMarketForChain: a positive price goes into the window;
\* then checkRisk; a blocked trade answers 400; else handleTrade is called.
ExecMarket(i, m) ==
  /\ reqs[i].kind = "exec" /\ reqs[i].pc = "market"
  /\ m.impliedPrice > 0 => Len(rollingPrices) < MaxSamples
  /\ IF m.impliedPrice > 0
       THEN /\ rollingPrices' = updateRollingPrices(rollingPrices, m.impliedPrice)
            /\ lastImpliedPrice' = m.impliedPrice
       ELSE UNCHANGED <<rollingPrices, lastImpliedPrice>>
  /\ LET risk == checkRisk(cfg.maxNotional, m.slippageBps, cfg, sinceTrade, dailyLoss)
         call == [src |-> "exec", action |-> reqs[i].side, checked |-> TRUE,
                  allowed |-> risk.allowed, conf |-> 0, chain |-> reqs[i].chain]
         quote == [NoEv EXCEPT !.op = "execQuote", !.slot = i, !.price = m.impliedPrice,
                               !.grew = (rollingPrices' # rollingPrices),
                               !.quotedFor = reqs[i].chain]
     IN IF ~risk.allowed
          THEN /\ reqs' = [reqs EXCEPT ![i] = IdleReq]
               /\ ev' = quote
          ELSE /\ Len(receipts) < MaxReceipts
               /\ IF configOK(reqs[i].chain)
                    THEN /\ reqs' = [reqs EXCEPT ![i] = [@ EXCEPT !.pc = "engine"]]
                         /\ ev' = [quote EXCEPT !.call = call]
                    ELSE /\ reqs' = [reqs EXCEPT ![i] = IdleReq]
                         /\ ev' = [quote EXCEPT !.call = call,
                                     !.done = DoneEv(FALSE, NoRes, receipts, receipts)]
  /\ UNCHANGED <<loopVars, activeChain, signalState, switches, ledgerVars, baseEnv,
                 engineVars, riskVars, auxVars>>

\* resolveChainContext(args): args.chain if it names a chain, else the active chain.
resolveChain(chainArg) == IF chainArg \in Chains THEN chainArg ELSE activeChain

\* POST /api/skill/invoke {action: "execute_trade", args}: handleTrade is called
\* with the resolved chain and args.notional || cfg.maxNotional.
SkillExecuteTrade(chainArg, side, notional) ==
  /\ \E i \in ReqSlots : reqs[i].pc = "idle"
  /\ Len(receipts) < MaxReceipts
  /\ LET chain == resolveChain(chainArg)
         call == [src |-> "skill", action |-> side, checked |-> FALSE,
                  allowed |-> FALSE, conf |-> 0, chain |-> chain]
     IN IF configOK(chain)
          THEN /\ reqs' = [reqs EXCEPT ![FreeReq] =
                             [IdleReq EXCEPT !.kind = "skill", !.pc = "engine",
                                !.chain = chain, !.side = side, !.notional = notional]]
               /\ ev' = [NoEv EXCEPT !.op = "call", !.call = call]
          ELSE /\ UNCHANGED reqs
               /\ ev' = [NoEv EXCEPT !.op = "call", !.call = call,
                           !.done = DoneEv(FALSE, NoRes, receipts, receipts)]
  /\ UNCHANGED <<loopVars, stateVars, ledgerVars, baseEnv, engineVars, riskVars, auxVars>>

\* A request's handleTrade call, after the engine came back.
ReqEngine(i, res) ==
  /\ reqs[i].pc = "engine"
  /\ res \in EngineResults(reqs[i].chain, reqs[i].side, reqs[i].notional)
  /\ HandleTradeReturn([chain |-> reqs[i].chain, side |-> reqs[i].side,
                        notional |-> reqs[i].notional,
                        source |-> IF reqs[i].kind = "skill" THEN "skill" ELSE "ui"], res)
  /\ reqs' = [reqs EXCEPT ![i] = IdleReq]
  /\ ev' = [NoEv EXCEPT !.op = "done", !.done = DoneEv(TRUE, res, receipts, receipts')]
  /\ UNCHANGED <<loopVars, stateVars, baseEnv, engineVars, riskVars, auxVars>>

\* Faulty variant: the chain is switched and the signal state is left as it was.
SetChain_KeepsSignal(chain) ==
  /\ activeChain' = chain
  /\ ev' = [NoEv EXCEPT !.op = "setChain"]
  /\ switches' = switches + 1
  /\ UNCHANGED <<loopVars, reqs, rollingPrices, lastImpliedPrice, signalState, ledgerVars,
                 baseEnv, engineVars, riskVars, auxVars>>

\* POST /api/ui/set-chain and the skill's set_chain, for a chain they accept:
\* switch the chain, reset the window and the last signal, strength, confidence
\* and price.
SetChain(chain) ==
  /\ activeChain' = chain
  /\ rollingPrices' = <<>>
  /\ lastSignal' = "null"
  /\ lastStrength' = NullStrength
  /\ lastConfidence' = NullConfidence
  /\ lastImpliedPrice' = 0
  /\ switches' = switches + 1
  /\ ev' = [NoEv EXCEPT !.op = "setChain"]
  /\ UNCHANGED <<loopVars, reqs, ledgerVars, baseEnv, engineVars, riskVars, auxVars>>

\* A second passes.
AdvanceClock ==
  /\ \/ sinceTrade < cfg.cooldownSec
     \/ baseSince < baseCfg.cooldownSec
     \/ sinceSwap < baseCfg.cooldownSec
  /\ sinceTrade' = Min(sinceTrade + 1, cfg.cooldownSec)
  /\ baseSince' = Min(baseSince + 1, baseCfg.cooldownSec)
  /\ sinceSwap' = Min(sinceSwap + 1, baseCfg.cooldownSec)
  /\ ev' = NoEv
  /\ baseEv' = NoBaseEv
  /\ UNCHANGED <<loopVars, reqs, stateVars, dailyLoss, paperUSDC, paperPosition,
                 paperPnL, receipts, appended, handled, baseEnv, killSwitch, baseCalls,
                 riskVars,
                 auxVars>>

---------------------------------------------------------------------------
\* Base engine (baseEngine.ts executeTrade), one step per awaited network call.

Notionals == {cfg.maxNotional, 2 * cfg.maxNotional}
Replies == {"fail", "yes", "no"}

FreeBase == CHOOSE i \in BaseSlots : baseCalls[i].pc = "idle" /\
               \A j \in BaseSlots : baseCalls[j].pc = "idle" => i <= j

\* Faulty variant: the cooldown is not among the rails tested up front.
baseRails_NoCooldown(kill, notional, elapsed) ==
  IF kill THEN "KILL_SWITCH"
  ELSE IF notional > baseCfg.maxNotional THEN "MAX_NOTIONAL"
  ELSE "ok"

\* The safety rails at the top of executeTrade, in the order the code tests them.
baseRails(kill, notional, elapsed) ==
  IF kill THEN "KILL_SWITCH"
  ELSE IF notional > baseCfg.maxNotional THEN "MAX_NOTIONAL"
  ELSE IF elapsed < baseCfg.cooldownSec THEN "COOLDOWN"
  ELSE "ok"

\* The network call that follows a call that came back: decimals of both tokens,
\* for SELL the exact-output quote, the exact-input quote, the allowance read, the
\* approve and its receipt if the allowance is short, the swap and its receipt.
basePcAfter(pc, side, reply) ==
  CASE pc = "decimalsIn" -> "decimalsOut"
    [] pc = "decimalsOut" -> IF side = "SELL" THEN "quoteExactOutput" ELSE "quoteExactInput"
    [] pc = "quoteExactOutput" -> "quoteExactInput"
    [] pc = "quoteExactInput" -> "allowance"
    [] pc = "allowance" -> IF reply = "no" THEN "approve" ELSE "swap"
    [] pc = "approve" -> "approveReceipt"
    [] pc = "approveReceipt" -> "swap"
    [] pc = "swap" -> "swapReceipt"
    [] OTHER -> "idle"

\* viem parseUnits of a whole number: the amount in units of 10^-decimals.
RECURSIVE parseUnits(_, _)
parseUnits(x, decimals) == IF decimals = 0 THEN x ELSE 10 * parseUnits(x, decimals - 1)

\* Faulty variant: a SELL spends the USD notional as if it were token units.
sellAmountIn_Notional(estimatedIn, notional, inDecimals) == parseUnits(notional, inDecimals)

\* inAmountRaw of a SELL: what quoteExactOutputSingle said has to be spent.
sellAmountIn(estimatedIn, notional, inDecimals) == estimatedIn

\* Faulty variant: the quote itself is the minimum, no slippage is allowed for.
amountOutMinimum_NoSlippage(quotedOut, slippageBps) == quotedOut

\* amountOutMinimum of the swap: the quoted output times 1 - maxSlippagePct / 100,
\* rounded down, and 0 when there is no positive quote.
amountOutMinimum(quotedOut, slippageBps) ==
  IF quotedOut > 0 THEN (quotedOut * (10000 - slippageBps)) \div 10000 ELSE 0

\* What a network call can come back with: token decimals, quoted amounts.
Decimals == {0, 1}
BaseValues == {0}
QuoteAmounts == {0, 3, 200}
ReplyValues == Decimals \cup QuoteAmounts
ValuesOf(pc) ==
  IF pc \in {"decimalsIn", "decimalsOut"} THEN Decimals
  ELSE IF pc \in {"quoteExactOutput", "quoteExactInput"} THEN QuoteAmounts
  ELSE {0}

\* executeTrade is called: a tripped rail or a missing BASE_PRIVATE_KEY throws before
\* anything is sent; else the first RPC read (decimals of tokenIn) is issued.
BaseExecuteTrade(side, notional, keySet) ==
  /\ \E i \in BaseSlots : baseCalls[i].pc = "idle"
  /\ baseEnvOK => keySet
  /\ IF baseRails(killSwitch, notional, baseSince) # "ok" \/ ~keySet
       THEN /\ UNCHANGED baseCalls
            /\ baseEv' = [NoBaseEv EXCEPT !.op = "throw", !.notional = notional]
       ELSE /\ baseCalls' = [baseCalls EXCEPT ![FreeBase] =
                               [IdleBase EXCEPT !.pc = "decimalsIn", !.side = side,
                                                !.notional = notional, !.net = 1]]
            /\ baseEv' = [NoBaseEv EXCEPT !.op = "call", !.notional = notional, !.net = 1]
  /\ ev' = NoEv
  /\ UNCHANGED <<loopVars, reqs, stateVars, ledgerVars, baseEnv, killSwitch, baseSince,
                 sinceSwap, riskVars, auxVars>>

\* Faulty variant: no try block around the network calls, a failure is rethrown.
BaseReply_Rethrow(i, reply, val) ==
  LET c == baseCalls[i]
  IN /\ c.pc # "idle"
     /\ reply = "fail"
     /\ val = 0
     /\ baseCalls' = [baseCalls EXCEPT ![i] = IdleBase]
     /\ baseEv' = [NoBaseEv EXCEPT !.op = "throw", !.notional = c.notional, !.net = c.net]
     /\ ev' = NoEv
     /\ UNCHANGED <<loopVars, reqs, stateVars, ledgerVars, baseEnv, killSwitch, baseSince,
                    sinceSwap, riskVars, auxVars>>

\* The call's variables after the awaited call at c.pc came back with val.
baseAfter(c, reply, val) ==
  [c EXCEPT
     !.pc = basePcAfter(c.pc, c.side, reply),
     !.net = c.net + 1,
     !.inDecimals = IF c.pc = "decimalsIn" THEN val ELSE c.inDecimals,
     !.outDecimals = IF c.pc = "decimalsOut" THEN val ELSE c.outDecimals,
     !.estimatedIn = IF c.pc = "quoteExactOutput" THEN val ELSE c.estimatedIn,
     !.inAmountRaw =
        IF c.pc = "decimalsOut" /\ c.side = "BUY"
          THEN parseUnits(c.notional, c.inDecimals)
        ELSE IF c.pc = "quoteExactOutput"
          THEN sellAmountIn(val, c.notional, c.inDecimals)
        ELSE c.inAmountRaw,
     !.quoted = IF c.pc = "quoteExactInput" THEN reply = "yes" ELSE c.quoted,
     !.quotedOut = IF c.pc = "quoteExactInput" /\ reply = "yes" THEN val ELSE c.quotedOut]

\* The transaction that is sent when the call moves on to pc, if any.
baseSent(c, gap) ==
  IF c.pc \in {"approve", "swap"}
    THEN [tx |-> c.pc, side |-> c.side, notional |-> c.notional,
          amountIn |-> c.inAmountRaw,
          amountOutMinimum |-> amountOutMinimum(c.quotedOut, baseCfg.maxSlippageBps),
          estimatedIn |-> c.estimatedIn, quoted |-> c.quoted, quotedOut |-> c.quotedOut,
          gap |-> gap]
    ELSE NoSent

\* An awaited network call comes back. A failure is caught by the try block and
\* returned as ok=false, except a failed exact-input quote, which is swallowed. The
\* swap's receipt sets lastTradeTs and returns ok = (status = "success").
BaseReply(i, reply, val) ==
  LET c == baseCalls[i]
  IN /\ c.pc # "idle"
     /\ reply = "no" => c.pc \in {"allowance", "swapReceipt"}
     /\ val \in (IF reply = "yes" THEN ValuesOf(c.pc) ELSE {0})
     /\ IF reply = "fail" /\ c.pc # "quoteExactInput"
          THEN /\ baseCalls' = [baseCalls EXCEPT ![i] = IdleBase]
               /\ baseEv' = [NoBaseEv EXCEPT !.op = "return", !.notional = c.notional,
                               !.net = c.net, !.notes = TRUE, !.failed = c.pc]
               /\ UNCHANGED <<baseSince, sinceSwap>>
          ELSE IF c.pc = "swapReceipt"
            THEN /\ baseCalls' = [baseCalls EXCEPT ![i] = IdleBase]
                 /\ baseSince' = 0
                 /\ baseEv' = [NoBaseEv EXCEPT !.op = "return", !.notional = c.notional,
                                 !.net = c.net, !.ok = (reply = "yes")]
                 /\ UNCHANGED sinceSwap
            ELSE /\ baseCalls' = [baseCalls EXCEPT ![i] = baseAfter(c, reply, val)]
                 /\ baseEv' = [NoBaseEv EXCEPT !.op = "step", !.notional = c.notional,
                                 !.net = c.net + 1,
                                 !.sent = baseSent(baseAfter(c, reply, val), sinceSwap)]
                 /\ sinceSwap' = IF baseAfter(c, reply, val).pc = "swap" THEN 0
                                 ELSE sinceSwap
                 /\ UNCHANGED baseSince
     /\ ev' = NoEv
     /\ UNCHANGED <<loopVars, reqs, stateVars, ledgerVars, baseEnv, killSwitch, riskVars, auxVars>>

---------------------------------------------------------------------------
\* Receipt store (skills/tradingSkill.ts) and the route that appends to it directly.

\* The lines of the file that parse, in file order, from line i on.
RECURSIVE parseLines(_, _, _)
parseLines(log, bad, i) ==
  IF i > Len(log) THEN <<>>
  ELSE (IF i \in bad THEN <<>> ELSE <<parse(log[i])>>) \o parseLines(log, bad, i + 1)

\* Array.prototype.slice(-limit): the last limit elements, all of them for -0.
sliceLast(seq, limit) ==
  IF limit = 0 \/ limit >= Len(seq) THEN seq
  ELSE SubSeq(seq, Len(seq) - limit + 1, Len(seq))

\* Faulty variant: a line that does not parse ends the read.
RECURSIVE parseLines_StopAtBad(_, _, _)
parseLines_StopAtBad(log, bad, i) ==
  IF i > Len(log) \/ i \in bad THEN <<>>
  ELSE <<parse(log[i])>> \o parseLines_StopAtBad(log, bad, i + 1)

listReceipts_StopAtBad(log, bad, limit) == sliceLast(parseLines_StopAtBad(log, bad, 1), limit)

\* listReceipts(limit): parse every line, skip the malformed ones, keep the last limit.
listReceipts(log, bad, limit) == sliceLast(parseLines(log, bad, 1), limit)

\* POST /api/ui/confirm-transaction, once the transaction is verified on chain:
\* a SUCCESS receipt with fill price 0 is appended; the paper ledger is not touched.
ConfirmTransaction(side, notional) ==
  LET receipt == [id |-> Len(receipts) + 1, status |-> "SUCCESS", side |-> side,
                  notional |-> notional, fillPrice |-> 0]
  IN /\ receipts' = appendReceipt(receipts, receipt)
     /\ appended' = Append(appended, receipt)
     /\ ev' = NoEv
     /\ UNCHANGED <<loopVars, reqs, stateVars, sinceTrade, dailyLoss, paperUSDC,
                    paperPosition, paperPnL, handled, baseEnv, engineVars, riskVars,
                    auxVars>>

\* A read of the store with the given limit.
ListReceipts(limit) ==
  /\ listed' = [called |-> TRUE, limit |-> limit,
                result |-> listReceipts(receipts, corrupt, limit)]
  /\ ev' = NoEv
  /\ UNCHANGED <<loopVars, reqs, stateVars, ledgerVars, baseEnv, engineVars, riskVars,
                 corrupt, signalVars, plannerVars, funding>>

\* Somebody edits the file by hand and leaves line i malformed.
CorruptLine(i) ==
  /\ i \in 1..Len(receipts)
  /\ i \notin corrupt
  /\ corrupt' = corrupt \cup {i}
  /\ ev' = NoEv
  /\ UNCHANGED <<loopVars, reqs, stateVars, ledgerVars, baseEnv, engineVars, riskVars,
                 listed, signalVars, plannerVars, funding>>

---------------------------------------------------------------------------
\* LLM planner (engine/llmPlanner.ts).

\* Confidences are counted in tenths: ConfOne stands for 1.
ConfOne == 10

\* What the completion call can give back. kind: the call throws
\* (network_error), the response has no choices array (bad_shape), the content
\* is missing or empty (empty), is not JSON (malformed), or is JSON (json);
\* json: the parsed value is null, a primitive or an object. The fields of an
\* object carry their JavaScript type.
ActionFields ==
  {[t |-> "missing", v |-> ""], [t |-> "number", v |-> ""]}
    \cup {[t |-> "string", v |-> a] : a \in Actions \cup {"buy", "STRONG_BUY"}}
ConfidenceFields ==
  {[t |-> "missing", v |-> 0], [t |-> "string", v |-> 0]}
    \cup {[t |-> "number", v |-> c] : c \in {-Infinity, -5, 0, 5, ConfOne, 15, Infinity}}
ReasonFields == {"missing", "array", "string"}

LLMResponses ==
  {[NoLLMIn EXCEPT !.kind = k] : k \in {"network_error", "bad_shape", "empty", "malformed"}}
    \cup {[NoLLMIn EXCEPT !.kind = "json", !.json = j] : j \in {"null", "primitive"}}
    \cup {[kind |-> "json", json |-> "object", action |-> a, confidence |-> c, reasons |-> r] :
            a \in ActionFields, c \in ConfidenceFields, r \in ReasonFields}

\* Math.max(0, Math.min(1, c))
clamp(c) == IF c < 0 THEN 0 ELSE Min(ConfOne, c)

\* The body of the try block: it returns a decision or throws.
decideBody(resp) ==
  IF resp.kind \in {"network_error", "bad_shape", "malformed"}
    THEN [NoLLMOut EXCEPT !.called = TRUE, !.threw = TRUE]
  ELSE IF resp.kind = "empty"
    THEN [NoLLMOut EXCEPT !.called = TRUE, !.reasons = "LLM returned empty response"]
  ELSE IF resp.json = "null"
    THEN [NoLLMOut EXCEPT !.called = TRUE, !.threw = TRUE]
  ELSE IF resp.json = "primitive"
    THEN [NoLLMOut EXCEPT !.called = TRUE]
  ELSE [called |-> TRUE, threw |-> FALSE,
        action |-> IF resp.action.t = "string" /\ resp.action.v \in Actions
                   THEN resp.action.v ELSE "HOLD",
        confidence |-> IF resp.confidence.t = "number" THEN clamp(resp.confidence.v) ELSE 0,
        reasons |-> IF resp.reasons = "array" THEN "array" ELSE "empty"]

\* Faulty variant: no catch around the body.
decideAction_NoCatch(resp) == decideBody(resp)

\* decideAction(context), given what the completion call gives back.
decideAction(resp) ==
  IF decideBody(resp).threw
  THEN [NoLLMOut EXCEPT !.called = TRUE, !.reasons = "LLM error"]
  ELSE decideBody(resp)

\* One call of decideAction.
DecideActionCall ==
  /\ ~llmOut.called
  /\ llmOut' = decideAction(llmIn)
  /\ ev' = NoEv
  /\ UNCHANGED <<loopVars, reqs, stateVars, ledgerVars, baseEnv, engineVars, riskVars,
                 storeVars, signalVars, llmIn, funding>>

---------------------------------------------------------------------------
\* Solana wallet funding (engine/agentKit.ts ensureFunded), one step per await.

maxRetries == 5
MaxBackoffMs == 30000
FundReplies == {"yes", "no", "fail"}

\* Faulty variant: the delay grows by two seconds per attempt instead of doubling.
backoffDelay_Linear(attempt) == Min(2000 * attempt, MaxBackoffMs)

\* Math.min(2000 * Math.pow(2, attempt - 1), 30000)
backoffDelay(attempt) == Min(2000 * 2^(attempt - 1), MaxBackoffMs)

\* ensureFunded(kit) is called: by initAgentKit once, and again by agentSendMemo
\* while the wallet is not funded. The first attempt reads the balance.
EnsureFunded ==
  /\ funding.pc \in {"idle", "done"}
  /\ ~funding.fundingReady
  /\ funding.runs < MaxRuns
  /\ funding' = [funding EXCEPT !.pc = "balance", !.attempt = 1, !.runs = @ + 1,
                                !.failed = 0, !.waits = <<>>]
  /\ ev' = NoEv
  /\ baseEv' = NoBaseEv
  /\ UNCHANGED <<loopVars, reqs, stateVars, ledgerVars, baseEnv, killSwitch, baseSince,
                 baseCalls, sinceSwap, riskVars, storeVars, signalVars, plannerVars>>

\* The catch block of an attempt: wait and go round again, or fall out of the loop
\* after the last attempt.
fundingCaught(f) ==
  IF f.attempt < maxRetries
    THEN [f EXCEPT !.pc = "backoff", !.failed = @ + 1,
                   !.waits = Append(@, backoffDelay(f.attempt))]
    ELSE [f EXCEPT !.pc = "done", !.failed = @ + 1]

\* The run is over with the wallet funded.
fundingDone(f) == [f EXCEPT !.pc = "done", !.fundingReady = TRUE]

\* What the run does when the call or timer it awaits comes back: "yes" is a
\* sufficient balance, an ok response, a confirmed airdrop or an elapsed timer,
\* "no" a low balance or a response that is not ok, "fail" an exception.
fundingAfter(f, reply) ==
  CASE f.pc = "balance" ->
         IF reply = "yes" THEN fundingDone(f)
         ELSE IF reply = "no" THEN [f EXCEPT !.pc = "faucet"]
         ELSE fundingCaught(f)
    [] f.pc = "faucet" ->
         IF reply = "yes" THEN [f EXCEPT !.pc = "faucetWait"] ELSE [f EXCEPT !.pc = "airdrop"]
    [] f.pc = "faucetWait" -> [f EXCEPT !.pc = "newBalance"]
    [] f.pc = "newBalance" ->
         IF reply = "yes" THEN fundingDone(f) ELSE [f EXCEPT !.pc = "airdrop"]
    [] f.pc = "airdrop" ->
         IF reply = "yes" THEN [f EXCEPT !.pc = "confirm"] ELSE fundingCaught(f)
    [] f.pc = "confirm" ->
         IF reply = "yes" THEN fundingDone(f) ELSE fundingCaught(f)
    [] f.pc = "backoff" -> [f EXCEPT !.pc = "balance", !.attempt = @ + 1]
    [] OTHER -> f

\* An await of the run in flight comes back.
FundingStep(reply) ==
  /\ funding.pc \notin {"idle", "done"}
  /\ funding.pc \in {"faucetWait", "backoff"} => reply = "yes"
  /\ funding.pc \in {"airdrop", "confirm"} => reply # "no"
  /\ funding' = fundingAfter(funding, reply)
  /\ ev' = NoEv
  /\ baseEv' = NoBaseEv
  /\ UNCHANGED <<loopVars, reqs, stateVars, ledgerVars, baseEnv, killSwitch, baseSince,
                 baseCalls, sinceSwap, riskVars, storeVars, signalVars, plannerVars>>

---------------------------------------------------------------------------
\* Risk checker, called on its own.

RiskNotionals == {1, 2, 3}
RiskSlippages == {0, 50, 51, 100}
RiskElapsed == {0, 1, 2}
RiskLosses == {0, 1, 2}
RiskInputs == [notional : RiskNotionals, slippageBps : RiskSlippages,
               elapsed : RiskElapsed, loss : RiskLosses]

\* checkRisk(notional, slippageBps, cfg) with lastTradeTs and dailyLoss as in riskIn.
CheckRiskCall ==
  /\ ~riskOut.called
  /\ LET r == checkRisk(riskIn.notional, riskIn.slippageBps, cfg, riskIn.elapsed,
                        riskIn.loss)
     IN riskOut' = [called |-> TRUE, allowed |-> r.allowed, checks |-> r.checks]
  /\ UNCHANGED <<loopVars, reqs, stateVars, ledgerVars, baseEnv, engineVars, riskIn, ev, auxVars>>

---------------------------------------------------------------------------
\* The process at start: state.ts sharedState, loop.ts loopTimer, an empty log.
InitProcess ==
  /\ running = FALSE
  /\ loopTimer = 0
  /\ timers = {}
  /\ ticks = [i \in TickSlots |-> IdleTick]
  /\ reqs = [i \in ReqSlots |-> IdleReq]
  /\ activeChain = "solana-devnet"
  /\ rollingPrices = <<>>
  /\ lastImpliedPrice = 0
  /\ lastSignal = "null"
  /\ lastStrength = NullStrength
  /\ lastConfidence = NullConfidence
  /\ switches = 0
  /\ sinceTrade = cfg.cooldownSec
  /\ dailyLoss = 0
  /\ paperUSDC = PAPER_BASELINE
  /\ paperPosition = 0
  /\ paperPnL = 0
  /\ handled = [usdc |-> PAPER_BASELINE, pos |-> 0, fills |-> 0]
  /\ receipts = <<>>
  /\ baseSince = baseCfg.cooldownSec
  /\ baseCalls = [i \in BaseSlots |-> IdleBase]
  /\ baseEv = NoBaseEv
  /\ sinceSwap = baseCfg.cooldownSec
  /\ riskOut = NoRiskOut
  /\ appended = <<>>
  /\ corrupt = {}
  /\ listed = NoListed
  /\ uniPrices = <<>>
  /\ uniPushed = <<>>
  /\ sigOut = NoSigOut
  /\ llmOut = NoLLMOut
  /\ funding = NoFunding
  /\ ev = NoEv

\* The environment either configures Base or not; KILL_SWITCH is unset by default.
Init ==
  /\ InitProcess
  /\ baseEnv \in Environments
  /\ killSwitch = FALSE
  /\ riskIn = NoRiskIn
  /\ llmIn = NoLLMIn

TimerFires == \E t \in TimerIds : TimerFire(t)
TickStep(i) ==
  \/ \E m \in MarketResults : TickMarket(i, m)
  \/ \E a \in Actions, c \in Confidences : TickPlanner(i, a, c)
  \/ \E res \in BaseResults("BUY", cfg.maxNotional) \cup BaseResults("SELL", cfg.maxNotional)
             \cup SolanaResults("BUY", cfg.maxNotional)
             \cup SolanaResults("SELL", cfg.maxNotional) : TickEngine(i, res)
  \/ TickRaise(i)
ReqStep(i) ==
  \/ \E m \in MarketResults : ExecMarket(i, m)
  \/ \E n \in Notionals, sd \in Sides :
       \E res \in BaseResults(sd, n) \cup SolanaResults(sd, n) : ReqEngine(i, res)

Next ==
  \/ StartLoop
  \/ StopLoop
  \/ TimerFires
  \/ \E i \in TickSlots : TickStep(i)
  \/ \E sd \in Sides : ExecuteNow(sd)
  \/ \E ch \in Chains \cup {"default"}, sd \in Sides, n \in Notionals :
       SkillExecuteTrade(ch, sd, n)
  \/ \E i \in ReqSlots : ReqStep(i)
  \/ \E ch \in Chains : switches < MaxSwitches /\ SetChain(ch)
  \/ AdvanceClock
  \/ \E sd \in Sides, n \in Notionals, k \in BOOLEAN : BaseExecuteTrade(sd, n, k)
  \/ \E i \in BaseSlots, r \in Replies, v \in BaseValues : BaseReply(i, r, v)
  \/ CheckRiskCall
  \/ \E sd \in Sides, n \in Notionals :
       Len(receipts) < MaxLines /\ ConfirmTransaction(sd, n)
  \/ \E l \in 0..MaxLines : ListReceipts(l)
  \/ \E i \in 1..MaxLines : CorruptLine(i)
  \/ \E price \in SignalPrices \cup WindowPrices :
       Len(uniPushed) < MaxPushes /\ UniUpdate(price)
  \/ \E thr \in Thresholds : UniComputeSignal(thr)
  \/ DecideActionCall

Spec == Init /\ [][Next]_vars

\* The loop scheduler on its own: start/stop, the timers, the ticks and the
\* chain they trade on.
NextLoop ==
  \/ StartLoop
  \/ StopLoop
  \/ TimerFires
  \/ \E i \in TickSlots : TickStep(i)
  \/ \E ch \in Chains : switches < MaxSwitches /\ SetChain(ch)

SpecLoop == Init /\ [][NextLoop]_vars

\* The loop once started and never stopped: its ticks on either chain.
NextTicking ==
  \/ StartLoop
  \/ TimerFires
  \/ \E i \in TickSlots : TickStep(i)
  \/ \E ch \in Chains : switches < MaxSwitches /\ SetChain(ch)

\* The event loop fires an armed timer, and every awaited call of a tick comes back.
SpecLoopFair ==
  /\ Init /\ [][NextTicking]_vars
  /\ WF_vars(TimerFires)
  /\ \A i \in TickSlots : WF_vars(TickStep(i))

\* The trade entry points: the loop (never stopped), execute-now and the skill.
NextEntry ==
  \/ StartLoop
  \/ TimerFires
  \/ \E i \in TickSlots : TickStep(i)
  \/ \E sd \in Sides : ExecuteNow(sd)
  \/ \E ch \in Chains \cup {"default"}, sd \in Sides, n \in Notionals :
       SkillExecuteTrade(ch, sd, n)
  \/ \E i \in ReqSlots : ReqStep(i)
  \/ \E ch \in Chains : switches < MaxSwitches /\ SetChain(ch)
  \/ AdvanceClock

SpecEntry == Init /\ [][NextEntry]_vars

\* The Base engine called directly, under either setting of KILL_SWITCH.
InitBase ==
  /\ InitProcess
  /\ baseEnv \in Environments
  /\ killSwitch \in BOOLEAN
  /\ riskIn = NoRiskIn
  /\ llmIn = NoLLMIn

NextBase ==
  \/ \E sd \in Sides, n \in Notionals, k \in BOOLEAN : BaseExecuteTrade(sd, n, k)
  \/ \E i \in BaseSlots, r \in Replies, v \in BaseValues : BaseReply(i, r, v)
  \/ AdvanceClock

SpecBase == InitBase /\ [][NextBase]_vars

\* The Base engine one call at a time, with every decimals and quote value.
NextSwap ==
  \/ \E sd \in Sides, n \in Notionals, k \in BOOLEAN :
       (\A i \in BaseSlots : baseCalls[i].pc = "idle") /\ BaseExecuteTrade(sd, n, k)
  \/ \E i \in BaseSlots, r \in Replies, v \in ReplyValues : BaseReply(i, r, v)
  \/ AdvanceClock

SpecSwap == InitBase /\ [][NextSwap]_vars

\* Wallet funding on its own.
InitFund ==
  /\ InitProcess
  /\ baseEnv = BASE_REQUIRED_VARS
  /\ killSwitch = FALSE
  /\ riskIn = NoRiskIn
  /\ llmIn = NoLLMIn

NextFund ==
  \/ EnsureFunded
  \/ \E r \in FundReplies : FundingStep(r)

SpecFund == InitFund /\ [][NextFund]_vars

\* The receipt store on its own: appends, reads and hand-made damage.
NextStore ==
  \/ \E sd \in Sides, n \in Notionals :
       Len(receipts) < MaxLines /\ ConfirmTransaction(sd, n)
  \/ \E l \in 0..MaxLines : ListReceipts(l)
  \/ \E i \in 1..MaxLines : CorruptLine(i)

SpecStore == Init /\ [][NextStore]_vars

\* Everything that writes or reads the receipt log: trades from the loop,
\* execute-now and the skill, confirm-transaction, and reads.
NextLog ==
  \/ StartLoop
  \/ TimerFires
  \/ \E i \in TickSlots : TickStep(i)
  \/ \E sd \in Sides : ExecuteNow(sd)
  \/ \E ch \in Chains \cup {"default"}, sd \in Sides, n \in Notionals :
       SkillExecuteTrade(ch, sd, n)
  \/ \E sd \in Sides :
       Len(receipts) < MaxLogLines /\ ConfirmTransaction(sd, 1)
  \/ \E l \in {0, 1} : ListReceipts(l)

SpecLog == Init /\ [][NextLog]_vars

\* The signal on every short window of SignalPrices.
NextSignal ==
  \/ \E price \in SignalPrices : Len(uniPrices) < MaxSignalWindow /\ UniUpdate(price)
  \/ \E thr \in Thresholds : UniComputeSignal(thr)

SpecSignal == Init /\ [][NextSignal]_vars

\* The window filled past its size, with a few high prices to tell positions apart.
NextWindow ==
  \E price \in WindowPrices :
    /\ Len(uniPushed) < MaxPushes
    /\ price = 2 => HighCount(uniPushed) < MaxHighs
    /\ UniUpdate(price)

SpecWindow == Init /\ [][NextWindow]_vars

\* The handler under every setting of the Base variables: execute-now and the
\* skill, on either chain.
InitConfig ==
  /\ InitProcess
  /\ baseEnv \in SUBSET BASE_REQUIRED_VARS
  /\ killSwitch = FALSE
  /\ riskIn = NoRiskIn
  /\ llmIn = NoLLMIn

NextConfig ==
  \/ \E sd \in Sides : ExecuteNow(sd)
  \/ \E ch \in Chains \cup {"default"}, sd \in Sides, n \in Notionals :
       SkillExecuteTrade(ch, sd, n)
  \/ \E i \in ReqSlots : ReqStep(i)
  \/ \E ch \in Chains : switches < MaxSwitches /\ SetChain(ch)

SpecConfig == InitConfig /\ [][NextConfig]_vars

\* decideAction applied to every response of LLMResponses.
InitPlanner ==
  /\ InitProcess
  /\ baseEnv = BASE_REQUIRED_VARS
  /\ killSwitch = FALSE
  /\ riskIn = NoRiskIn
  /\ llmIn \in LLMResponses

NextPlanner == DecideActionCall

SpecPlanner == InitPlanner /\ [][NextPlanner]_vars

\* checkRisk applied to every input of RiskInputs.
InitRisk ==
  /\ InitProcess
  /\ baseEnv = BASE_REQUIRED_VARS
  /\ killSwitch = FALSE
  /\ riskIn \in RiskInputs
  /\ llmIn = NoLLMIn

NextRisk == CheckRiskCall

SpecRisk == InitRisk /\ [][NextRisk]_vars

---------------------------------------------------------------------------
\* Properties.

ActiveTicks == {i \in TickSlots : ticks[i].pc # "idle"}

\* C1: a tick calls handleTrade only with a BUY or SELL decision, with the tick's
\* own checkRisk result allowed, and with a confidence strictly above 0.3.
C1_LoopTradeGated ==
  ev.call.src = "loop" =>
    /\ ev.call.action \in {"BUY", "SELL"}
    /\ ev.call.allowed
    /\ ev.call.conf > CONF_THRESHOLD

\* A tick has just called handleTrade.
C1_Witness == ev.call.src = "loop" /\ ev.call.allowed /\ ev.call.conf > CONF_THRESHOLD

\* C2: at most one tick is executing and at most one re-arm timer is pending.
C2_TicksNeverOverlap == Cardinality(ActiveTicks) <= 1 /\ Cardinality(timers) <= 1

\* C3: every call of handleTrade, from the loop, execute-now or the skill, comes
\* after the caller's own checkRisk for that request, which returned allowed.
C3_CallerCheckedRisk == ev.call.src # "none" => ev.call.checked /\ ev.call.allowed

\* C4, as stated: a handleTrade call that passes the configuration check appends
\* exactly one receipt, and only a configuration error appends none.
C4_OneReceiptPerAttempt ==
  ev.done.result # "none" => (ev.done.appended = IF ev.done.configOK THEN 1 ELSE 0)

\* C4, amended: a handleTrade call that passes the configuration check and whose
\* engine call returns a result appends exactly one receipt, SUCCESS if the engine
\* reported ok and FAILED if not; a configuration error and an engine call that
\* throws append none and return {error}.
C4_OneReceiptPerEngineResult ==
  ev.done.result # "none" =>
    IF ev.done.configOK /\ ev.done.engine \in {"ok", "failed"}
      THEN /\ ev.done.appended = 1
           /\ ev.done.result = "receipt"
           /\ receipts[Len(receipts)].status =
                (IF ev.done.engine = "ok" THEN "SUCCESS" ELSE "FAILED")
      ELSE ev.done.appended = 0 /\ ev.done.result = "error"

\* A handleTrade call has ended with a FAILED receipt.
C4_Witness ==
  /\ ev.done.engine = "failed"
  /\ ev.done.appended = 1
  /\ receipts[Len(receipts)].status = "FAILED"

\* C5: every handleTrade call ends by returning a receipt or {error}; an engine
\* that throws ends it with {error}.
C5_TwoTerminalOutcomes ==
  ev.done.result # "none" =>
    /\ ev.done.result \in {"receipt", "error"}
    /\ ev.done.engine = "throw" => ev.done.result = "error"

\* A handleTrade call whose engine threw has returned {error}.
C5_Witness == ev.done.engine = "throw" /\ ev.done.result = "error"

\* C6: a call of the Base engine's executeTrade made while KILL_SWITCH is set, or
\* with a notional over the cap, or before the cooldown has elapsed, throws with
\* no network call issued and no call left in flight.
C6_BaseRailsBeforeNetwork ==
  [][(/\ baseEv'.op \in {"call", "throw"}
      /\ \/ killSwitch
         \/ baseEv'.notional > baseCfg.maxNotional
         \/ baseSince < baseCfg.cooldownSec)
     => /\ baseEv'.op = "throw"
        /\ baseEv'.net = 0
        /\ UNCHANGED <<baseCalls, baseSince>>]_vars

\* A call was rejected by the cooldown rail alone.
C6_Witness ==
  /\ baseEv.op = "throw"
  /\ ~killSwitch
  /\ baseEnvOK
  /\ baseEv.notional <= baseCfg.maxNotional

\* C7: checkRisk returns allowed exactly when the cooldown has elapsed, the
\* notional is within the cap, the daily loss is within the cap and the slippage
\* is within the cap; each named check reports its own condition.
C7_RiskAllOrNothing ==
  riskOut.called =>
    /\ riskOut.allowed <=> /\ riskIn.elapsed >= cfg.cooldownSec
                           /\ riskIn.notional <= cfg.maxNotional
                           /\ riskIn.loss <= cfg.maxDailyLoss
                           /\ riskIn.slippageBps <= cfg.maxSlippageBps
    /\ riskOut.checks.cooldownOK <=> riskIn.elapsed >= cfg.cooldownSec
    /\ riskOut.checks.maxNotionalOK <=> riskIn.notional <= cfg.maxNotional
    /\ riskOut.checks.maxDailyLossOK <=> riskIn.loss <= cfg.maxDailyLoss
    /\ riskOut.checks.slippageOK <=> riskIn.slippageBps <= cfg.maxSlippageBps

\* checkRisk has refused a request whose only failing check is the slippage.
C7_Witness ==
  /\ riskOut.called
  /\ ~riskOut.allowed
  /\ riskOut.checks.cooldownOK
  /\ riskOut.checks.maxNotionalOK
  /\ riskOut.checks.maxDailyLossOK
  /\ ~riskOut.checks.slippageOK

\* C8: if running stays true, ticks keep starting for ever, whatever way each
\* tick ends (skipped cycle, hold, trade, error result, caught exception).
C8_LoopKeepsTicking == (<>[]running) => []<>(ev.op = "tickStart")

\* A tick has started while the loop is running.
C8_Witness == running /\ ev.op = "tickStart"

\* C9: startLoop() while running changes nothing; stopLoop() while not running
\* leaves running false, loopTimer null and no timer armed.
C9_StartStopIdempotent ==
  [][/\ ev'.op = "startNoop" => UNCHANGED <<running, loopTimer, timers, ticks>>
     /\ ev'.op = "stopIdle" => (~running' /\ loopTimer' = 0 /\ timers' = {})]_vars

\* C10: when the market adapter returns a price that is not positive, the tick
\* or the execute-now request that asked for it adds nothing to the rolling
\* window and does not call handleTrade; the tick ends.
C10_NonPositivePriceSkips ==
  (ev.op \in {"tickQuote", "execQuote"} /\ ev.price <= 0) =>
    /\ ~ev.grew
    /\ ev.call.src = "none"
    /\ ev.op = "tickQuote" => ticks[ev.slot].pc = "idle"

C12_PnLRecomputed ==
  ev.done.result = "receipt" =>
    fEq(paperPnL,
        fAdd(fAdd(fMul(paperPosition, receipts[Len(receipts)].fillPrice), paperUSDC),
             -PAPER_BASELINE))

ValidLines == {i \in 1..Len(receipts) : i \notin corrupt}
KthValid(k) == CHOOSE i \in ValidLines : Cardinality({j \in ValidLines : j < i}) = k - 1

\* C14: listReceipts(N) on a store that N receipts were appended to returns the
\* receipts whose lines still parse, each as it was appended, in insertion order;
\* with no damaged line these are exactly the N receipts.
C14_StoreRoundTrip ==
  [][(listed'.called /\ listed' # listed /\ listed'.limit = Len(appended)) =>
       /\ Len(listed'.result) = Cardinality(ValidLines)
       /\ \A k \in 1..Len(listed'.result) : listed'.result[k] = appended[KthValid(k)]]_vars

\* Three receipts were appended, the second line was damaged, and a read with
\* limit 3 returned the first and the third.
C14_Witness ==
  /\ Len(appended) = 3
  /\ corrupt = {2}
  /\ listed.called /\ listed.limit = 3
  /\ listed.result = <<appended[1], appended[3]>>

\* The window of the last call, its current price and its prior high and low.
SigCur == uniPrices[Len(uniPrices)]
SigHigh == SeqMax(SubSeq(uniPrices, 1, Len(uniPrices) - 1))
SigLow == SeqMin(SubSeq(uniPrices, 1, Len(uniPrices) - 1))
SigApplies == sigOut.called /\ Len(uniPrices) >= 3 /\ SigHigh # SigLow

\* The reference rule in integers: up and down are the two breakout tests, the
\* strengths are fractions in lowest terms (capped at 1 in the breakout cases).
RefUp == (SigCur - SigHigh) * 10000 >= sigOut.threshold * SigHigh
RefDown == (SigLow - SigCur) * 10000 >= sigOut.threshold * SigLow
RefCap(n, d) == IF n >= d THEN rat(1, 1) ELSE rat(n, d)
RefAbove == 5 * (SigCur - SigLow) > 4 * (SigHigh - SigLow)
RefBelow == 5 * (SigCur - SigLow) < SigHigh - SigLow

\* C15: on a window of at least 3 samples whose prior high and low differ, the
\* result is the reference rule's: upside breakout first, then downside
\* breakout, then the position in the range, else HOLD with strength 0.
C15_SignalMatchesReference ==
  SigApplies =>
    LET r == sigOut.result
        t == sigOut.threshold
        w == SigHigh - SigLow
    IN /\ r.rollingHigh = SigHigh /\ r.rollingLow = SigLow
       /\ IF RefUp
          THEN r.signal = "BUY"
               /\ r.strength = RefCap((SigCur - SigHigh) * 10000, 3 * t * SigHigh)
          ELSE IF RefDown
          THEN r.signal = "SELL"
               /\ r.strength = RefCap((SigLow - SigCur) * 10000, 3 * t * SigLow)
          ELSE IF RefAbove
          THEN r.signal = "BUY"
               /\ r.strength = rat(3 * (5 * (SigCur - SigLow) - 4 * w), 10 * w)
          ELSE IF RefBelow
          THEN r.signal = "SELL"
               /\ r.strength = rat(3 * (w - 5 * (SigCur - SigLow)), 10 * w)
          ELSE r.signal = "HOLD" /\ r.strength = rat(0, 1)

\* The spec's second example: [100, 105, 108, 130] at 200 bps is BUY with strength 1.
C15_Witness ==
  /\ uniPrices = <<100, 105, 108, 130>>
  /\ sigOut.called /\ sigOut.threshold = 200
  /\ sigOut.result.signal = "BUY"
  /\ sigOut.result.strength = rat(1, 1)

\* C16: the strength returned by computeUniswapSignal lies in [0, 1].
C16_StrengthInUnitInterval ==
  sigOut.called =>
    /\ rLe(rat(0, 1), sigOut.result.strength)
    /\ rLe(sigOut.result.strength, rat(1, 1))

\* C17: a window of fewer than 3 samples gives HOLD with strength 0.
C17_ShortWindowHolds ==
  (sigOut.called /\ Len(uniPrices) < 3) =>
    /\ sigOut.result.signal = "HOLD"
    /\ sigOut.result.strength = rat(0, 1)

\* The signal was asked for on a window of two different prices.
C17_Witness ==
  /\ sigOut.called
  /\ Len(uniPrices) = 2
  /\ uniPrices[1] # uniPrices[2]

\* C18: when the prior window is flat (high = low) the result is HOLD with
\* strength 0 whatever the current price, and no division by zero was made.
C18_FlatPriorHolds ==
  (sigOut.called /\ Len(uniPrices) >= 3 /\ SigHigh = SigLow) =>
    /\ sigOut.result.signal = "HOLD"
    /\ sigOut.result.strength = rat(0, 1)
    /\ 0 \notin sigOut.result.denoms
    /\ sigOut.result.strength.den # 0

\* A flat prior window followed by a current price far above it.
C18_Witness ==
  /\ sigOut.called
  /\ uniPrices = <<100, 100, 100, 130>>

\* C19: the window holds the last min(n, 30) of the n prices pushed, in order.
C19_SlidingWindow ==
  /\ Len(uniPrices) = Min(Len(uniPushed), WINDOW_SIZE)
  /\ uniPrices = SubSeq(uniPushed, Len(uniPushed) - Len(uniPrices) + 1, Len(uniPushed))

\* Two more prices than the window holds were pushed; the first two are gone
\* and the third, a high one, is now the oldest.
C19_Witness ==
  /\ Len(uniPushed) = WINDOW_SIZE + 2
  /\ uniPushed[1] = 2 /\ uniPushed[2] = 1 /\ uniPushed[3] = 2
  /\ uniPrices[1] = 2 /\ uniPrices[2] = 1

\* C20: decideAction never throws and fails closed: the action is BUY, SELL or
\* HOLD and the confidence lies in [0, 1]; an unknown action becomes HOLD, a
\* numeric confidence is clamped, missing reasons become an empty list, and a
\* failed call or unparsable content gives HOLD with confidence 0.
C20_PlannerFailsClosed ==
  llmOut.called =>
    /\ ~llmOut.threw
    /\ llmOut.action \in Actions
    /\ 0 <= llmOut.confidence /\ llmOut.confidence <= ConfOne
    /\ llmIn.kind \in {"network_error", "bad_shape", "malformed"} =>
         llmOut.action = "HOLD" /\ llmOut.confidence = 0
    /\ (llmIn.kind = "json" /\ llmIn.json = "null") =>
         llmOut.action = "HOLD" /\ llmOut.confidence = 0
    /\ (llmIn.kind = "json" /\ llmIn.json = "object") =>
         /\ llmIn.action \notin {[t |-> "string", v |-> a] : a \in Actions} =>
              llmOut.action = "HOLD"
         /\ llmIn.action \in {[t |-> "string", v |-> a] : a \in Actions} =>
              llmOut.action = llmIn.action.v
         /\ (llmIn.confidence.t = "number" /\ llmIn.confidence.v > ConfOne) =>
              llmOut.confidence = ConfOne
         /\ (llmIn.confidence.t = "number" /\ llmIn.confidence.v < 0) =>
              llmOut.confidence = 0
         /\ (llmIn.confidence.t = "number" /\ llmIn.confidence.v \in 0..ConfOne) =>
              llmOut.confidence = llmIn.confidence.v
         /\ llmIn.reasons = "missing" => llmOut.reasons = "empty"

\* A response with an unknown action, a confidence above 1 and no reasons came
\* back as HOLD with confidence 1 and an empty list.
C20_Witness ==
  /\ llmOut.called
  /\ llmIn.kind = "json" /\ llmIn.json = "object"
  /\ llmIn.action = [t |-> "string", v |-> "STRONG_BUY"]
  /\ llmIn.confidence = [t |-> "number", v |-> 15]
  /\ llmIn.reasons = "missing"
  /\ llmOut.action = "HOLD" /\ llmOut.confidence = ConfOne /\ llmOut.reasons = "empty"

\* C21: a handleTrade call for chain "base" while a required Base variable is
\* unset returns a configuration error that lists the missing names, calls no
\* engine, leaves the shared state as it is and appends no receipt.
C21_ConfigErrorListsMissing ==
  [][(ev'.call.src # "none" /\ ev'.call.chain = "base" /\ ~baseEnvOK) =>
       /\ ev'.done.result = "error"
       /\ ev'.done.engine = "none"
       /\ ev'.done.appended = 0
       /\ \A i \in ReqSlots : reqs'[i].pc # "engine"
       /\ UNCHANGED <<ledgerVars, activeChain>>
       /\ ev'.done.names = BASE_REQUIRED_VARS \ baseEnv]_vars

\* C22: right after an accepted set-chain request the rolling window is empty
\* and lastSignal, lastStrength, lastConfidence and lastImpliedPrice are null.
C22_SetChainResetsSignal ==
  ev.op = "setChain" =>
    /\ rollingPrices = <<>>
    /\ lastSignal = "null"
    /\ lastStrength = NullStrength
    /\ lastConfidence = NullConfidence
    /\ lastImpliedPrice = 0

\* The chain was switched while a tick that had recorded a price, a signal and
\* a confidence was waiting for its trade to come back.
C22_Witness ==
  /\ ev.op = "setChain"
  /\ activeChain = "base"
  /\ \E i \in TickSlots : ticks[i].pc = "engine" /\ ticks[i].chain = "solana-devnet"
  /\ rollingPrices = <<>> /\ lastSignal = "null" /\ lastConfidence = NullConfidence

\* C23: the swap of a SELL is submitted with the amountIn that the
\* quoteExactOutputSingle simulation returned, and when that simulation fails the
\* call returns ok=false after its three reads, with no approve and no swap sent.
C23_SellSizedByQuoter ==
  [][/\ (baseEv'.sent.tx = "swap" /\ baseEv'.sent.side = "SELL") =>
          baseEv'.sent.amountIn = baseEv'.sent.estimatedIn
     /\ \A i \in BaseSlots :
          (baseCalls[i].pc = "quoteExactOutput" /\ baseCalls'[i].pc = "idle") =>
            /\ baseEv'.op = "return"
            /\ ~baseEv'.ok
            /\ baseEv'.failed = "quoteExactOutput"
            /\ baseEv'.net = 3
            /\ baseEv'.sent = NoSent]_vars

\* A SELL's swap was submitted with the quoter's amount, which is not the
\* notional in token units.
C23_Witness ==
  /\ baseEv.sent.tx = "swap"
  /\ baseEv.sent.side = "SELL"
  /\ baseEv.sent.amountIn = 3
  /\ \A d \in Decimals : baseEv.sent.amountIn # parseUnits(baseEv.sent.notional, d)

\* C24: a swap that follows a positive exact-input quote q is submitted with
\* amountOutMinimum = floor(q * (1 - maxSlippagePct / 100)) <= q; a failed quote
\* does not end the call, and its swap is submitted with amountOutMinimum = 0.
C24_SlippageFloor ==
  [][/\ (baseEv'.sent.tx = "swap" /\ baseEv'.sent.quoted /\ baseEv'.sent.quotedOut > 0) =>
          /\ baseEv'.sent.amountOutMinimum =
               (baseEv'.sent.quotedOut * (10000 - baseCfg.maxSlippageBps)) \div 10000
          /\ baseEv'.sent.amountOutMinimum <= baseEv'.sent.quotedOut
     /\ (baseEv'.sent.tx = "swap" /\ ~baseEv'.sent.quoted) =>
          baseEv'.sent.amountOutMinimum = 0
     /\ \A i \in BaseSlots :
          (baseCalls[i].pc = "quoteExactInput" /\ baseCalls'[i].pc # "quoteExactInput") =>
            /\ baseCalls'[i].pc = "allowance"
            /\ baseEv'.op = "step"]_vars

\* A swap was submitted after its exact-input quote had failed.
C24_Witness ==
  /\ baseEv.sent.tx = "swap"
  /\ ~baseEv.sent.quoted
  /\ baseEv.sent.amountOutMinimum = 0
  /\ baseEv.sent.amountIn > 0

\* C30: no two swaps of the Base engine are submitted less than
\* BASE_COOLDOWN_SECONDS apart, also with two executeTrade calls in flight.
C30_SwapsCooldownApart ==
  baseEv.sent.tx = "swap" => baseEv.sent.gap >= baseCfg.cooldownSec

\* C25: whenever handleTrade returns a receipt, SUCCESS or FAILED, on either
\* chain, a BUY has taken the notional off paperUSDC and added the token amount to
\* paperPosition, and a SELL has taken the token amount off paperPosition and
\* added the notional to paperUSDC.
C25_LedgerMovesOnEveryResult ==
  [][ev'.done.result = "receipt" =>
       /\ Len(appended') = Len(appended) + 1
       /\ LET r == appended'[Len(appended')]
              tok == IF r.side = "BUY" THEN ev'.done.outAmount ELSE ev'.done.inAmount
          IN /\ r.status = (IF ev'.done.engine = "ok" THEN "SUCCESS" ELSE "FAILED")
             /\ r.side = "BUY" =>
                  /\ paperUSDC' = fAdd(paperUSDC, -r.notional)
                  /\ paperPosition' = fAdd(paperPosition, tok)
             /\ r.side = "SELL" =>
                  /\ paperUSDC' = fAdd(paperUSDC, r.notional)
                  /\ paperPosition' = fAdd(paperPosition, fNeg(tok))]_vars

\* A BUY on Base came back as failed and the notional left paperUSDC all the same.
C25_Witness ==
  /\ ev.done.result = "receipt"
  /\ ev.done.engine = "failed"
  /\ activeChain = "base"
  /\ Len(appended) = 1
  /\ appended[1].status = "FAILED"
  /\ appended[1].side = "BUY"
  /\ paperUSDC = PAPER_BASELINE - appended[1].notional

\* C27: once no handleTrade call is in flight, paperUSDC is the baseline minus
\* the notionals of the handled BUYs plus those of the handled SELLs, and
\* paperPosition is the BUY token amounts minus the SELL token amounts.
C27_NoLostLedgerUpdate ==
  ((\A i \in TickSlots : ticks[i].pc # "engine") /\ (\A i \in ReqSlots : reqs[i].pc # "engine"))
    => /\ fEq(paperUSDC, handled.usdc) \/ (paperUSDC = NaN /\ handled.usdc = NaN)
       /\ fEq(paperPosition, handled.pos) \/ (paperPosition = NaN /\ handled.pos = NaN)

\* Two handleTrade calls were in flight at once and both have been handled.
C27_Witness ==
  /\ handled.fills = 2
  /\ \A i \in TickSlots : ticks[i].pc # "engine"
  /\ \A i \in ReqSlots : reqs[i].pc # "engine"
  /\ Len(receipts) = 2
  /\ paperUSDC # PAPER_BASELINE

\* C26: a run of ensureFunded makes at most 5 attempts, its k-th wait is
\* min(2000 * 2^(k-1), 30000) ms and there are at most 4 of them, it is over as
\* soon as the wallet is funded, and after the 5th failure it does not try again.
C26_FundingRetryBounded ==
  [][/\ funding'.pc # "idle" => funding'.attempt \in 1..5
     /\ funding'.failed <= 5
     /\ Len(funding'.waits) <= 4
     /\ Len(funding'.waits) = Min(funding'.failed, 4)
     /\ \A k \in 1..Len(funding'.waits) :
          /\ funding'.waits[k] = Min(2000 * 2^(k - 1), 30000)
          /\ funding'.waits[k] <= 30000
     /\ funding'.waits \in {<<>>, <<2000>>, <<2000, 4000>>, <<2000, 4000, 8000>>,
                            <<2000, 4000, 8000, 16000>>}
     /\ (funding'.fundingReady /\ ~funding.fundingReady) => funding'.pc = "done"
     /\ funding'.failed = 5 => funding'.pc = "done"
     /\ (funding'.pc = "done" /\ funding.pc # "done") =>
          (funding'.fundingReady \/ funding'.failed = 5)]_vars

\* A run gave up after five failed attempts and four waits.
C26_Witness ==
  /\ funding.pc = "done"
  /\ ~funding.fundingReady
  /\ funding.failed = 5
  /\ funding.attempt = 5
  /\ funding.waits = <<2000, 4000, 8000, 16000>>

\* C28: while the loop is stopped (stopLoop was called and startLoop was not
\* called since), no tick of the loop calls handleTrade.
C28_StoppedLoopNeverTrades ==
  (ev.op = "call" /\ ev.call.src = "loop") => running

\* C29: a price that a tick or an execute-now request appends to the rolling
\* window was quoted for the chain that is active when it is appended.
C29_WindowOfActivePair ==
  (ev.op \in {"tickQuote", "execQuote"} /\ ev.grew) => ev.quotedFor = activeChain

====
